---------------------------- MODULE Spec2Model ----------------------------
(***************************************************************************)
(* openshift-ai/config.py: the module body binds NAMESPACE and nine URL    *)
(* constants, defines configure_environment() and calls it once on import. *)
(* configure_environment() copies eight of the constants into os.environ   *)
(* and prints six lines of confirmation.                                   *)
(*                                                                         *)
(* A Python str is modelled as the sequence of its characters, each a      *)
(* one-character string; the only non-ASCII character of the source,       *)
(* U+2713 CHECK MARK (line 40), is written "U+2713".  The program counter  *)
(* pc is the number of the source line about to be executed.               *)
(***************************************************************************)
EXTENDS Integers, Sequences, FiniteSets

\* How many times the importer calls configure_environment() itself after
\* the import has completed.
MaxCalls == 2

(***************************************************************************)
(* String literals of the source                                           *)
(***************************************************************************)

\* line 9: "hacohen-flywheel"
NAMESPACE_literal ==
    << "h", "a", "c", "o", "h", "e", "n", "-", "f", "l", "y", "w", "h", "e", "e", "l" >>

\* line 12: the f-string's text before {NAMESPACE}: "http://df-api-service."
API_BASE_URL_head ==
    << "h", "t", "t", "p", ":", "/", "/", "d", "f", "-", "a", "p", "i", "-", "s", "e", "r",
       "v", "i", "c", "e", "." >>

\* line 12: the f-string's text after {NAMESPACE}: ".svc.cluster.local:8000"
API_BASE_URL_tail ==
    << ".", "s", "v", "c", ".", "c", "l", "u", "s", "t", "e", "r", ".", "l", "o", "c", "a",
       "l", ":", "8", "0", "0", "0" >>

\* line 13: the f-string's text before {NAMESPACE}: "http://elasticsearch-master."
ELASTICSEARCH_URL_head ==
    << "h", "t", "t", "p", ":", "/", "/", "e", "l", "a", "s", "t", "i", "c", "s", "e", "a",
       "r", "c", "h", "-", "m", "a", "s", "t", "e", "r", "." >>

\* line 13: the f-string's text after {NAMESPACE}: ".svc.cluster.local:9200"
ELASTICSEARCH_URL_tail ==
    << ".", "s", "v", "c", ".", "c", "l", "u", "s", "t", "e", "r", ".", "l", "o", "c", "a",
       "l", ":", "9", "2", "0", "0" >>

\* line 14: the f-string's text before {NAMESPACE}: "mongodb://flywheel-infra-mongodb."
MONGODB_URL_head ==
    << "m", "o", "n", "g", "o", "d", "b", ":", "/", "/", "f", "l", "y", "w", "h", "e", "e",
       "l", "-", "i", "n", "f", "r", "a", "-", "m", "o", "n", "g", "o", "d", "b", "." >>

\* line 14: the f-string's text after {NAMESPACE}: ".svc.cluster.local:27017"
MONGODB_URL_tail ==
    << ".", "s", "v", "c", ".", "c", "l", "u", "s", "t", "e", "r", ".", "l", "o", "c", "a",
       "l", ":", "2", "7", "0", "1", "7" >>

\* line 15: the f-string's text before {NAMESPACE}: "redis://flywheel-infra-redis-master."
REDIS_URL_head ==
    << "r", "e", "d", "i", "s", ":", "/", "/", "f", "l", "y", "w", "h", "e", "e", "l", "-",
       "i", "n", "f", "r", "a", "-", "r", "e", "d", "i", "s", "-", "m", "a", "s", "t", "e",
       "r", "." >>

\* line 15: the f-string's text after {NAMESPACE}: ".svc.cluster.local:6379/0"
REDIS_URL_tail ==
    << ".", "s", "v", "c", ".", "c", "l", "u", "s", "t", "e", "r", ".", "l", "o", "c", "a",
       "l", ":", "6", "3", "7", "9", "/", "0" >>

\* line 16: the f-string's text before {NAMESPACE}: "http://df-mlflow-service."
MLFLOW_TRACKING_URI_head ==
    << "h", "t", "t", "p", ":", "/", "/", "d", "f", "-", "m", "l", "f", "l", "o", "w", "-",
       "s", "e", "r", "v", "i", "c", "e", "." >>

\* line 16: the f-string's text after {NAMESPACE}: ".svc.cluster.local:5000"
MLFLOW_TRACKING_URI_tail ==
    << ".", "s", "v", "c", ".", "c", "l", "u", "s", "t", "e", "r", ".", "l", "o", "c", "a",
       "l", ":", "5", "0", "0", "0" >>

\* line 19: the f-string's text before {NAMESPACE}: "http://nemo-gateway."
NEMO_BASE_URL_head ==
    << "h", "t", "t", "p", ":", "/", "/", "n", "e", "m", "o", "-", "g", "a", "t", "e", "w",
       "a", "y", "." >>

\* line 19: the f-string's text after {NAMESPACE}: ".svc.cluster.local"
NEMO_BASE_URL_tail ==
    << ".", "s", "v", "c", ".", "c", "l", "u", "s", "t", "e", "r", ".", "l", "o", "c", "a",
       "l" >>

\* line 20: the f-string's text before {NAMESPACE}: "http://nemo-gateway."
NIM_BASE_URL_head ==
    << "h", "t", "t", "p", ":", "/", "/", "n", "e", "m", "o", "-", "g", "a", "t", "e", "w",
       "a", "y", "." >>

\* line 20: the f-string's text after {NAMESPACE}: ".svc.cluster.local"
NIM_BASE_URL_tail ==
    << ".", "s", "v", "c", ".", "c", "l", "u", "s", "t", "e", "r", ".", "l", "o", "c", "a",
       "l" >>

\* line 21: the f-string's text before {NAMESPACE}: "http://nemodatastore-sample."
DATASTORE_BASE_URL_head ==
    << "h", "t", "t", "p", ":", "/", "/", "n", "e", "m", "o", "d", "a", "t", "a", "s", "t",
       "o", "r", "e", "-", "s", "a", "m", "p", "l", "e", "." >>

\* line 21: the f-string's text after {NAMESPACE}: ".svc.cluster.local:8000"
DATASTORE_BASE_URL_tail ==
    << ".", "s", "v", "c", ".", "c", "l", "u", "s", "t", "e", "r", ".", "l", "o", "c", "a",
       "l", ":", "8", "0", "0", "0" >>

\* lines 24-26: the external route, a plain literal
NIM_EXTERNAL_URL_literal ==
    << "h", "t", "t", "p", ":", "/", "/", "n", "e", "m", "o", "-", "g", "a", "t", "e", "w",
       "a", "y", "-", "h", "a", "c", "o", "h", "e", "n", "-", "f", "l", "y", "w", "h", "e",
       "e", "l", ".", "a", "p", "p", "s", ".", "a", "i", "-", "d", "e", "v", "0", "5", ".",
       "k", "n", "i", ".", "s", "y", "s", "e", "n", "g", ".", "d", "e", "v", "c", "l", "u",
       "s", "t", "e", "r", ".", "o", "p", "e", "n", "s", "h", "i", "f", "t", ".", "c", "o",
       "m" >>

\* line 40: "U+2713 OpenShift AI environment configured"
Banner ==
    << "U+2713", " ", "O", "p", "e", "n", "S", "h", "i", "f", "t", " ", "A", "I", " ", "e",
       "n", "v", "i", "r", "o", "n", "m", "e", "n", "t", " ", "c", "o", "n", "f", "i", "g",
       "u", "r", "e", "d" >>

\* line 41: "  Namespace: "
NamespaceLabel ==
    << " ", " ", "N", "a", "m", "e", "s", "p", "a", "c", "e", ":", " " >>

\* line 42: "  API URL: "
ApiLabel ==
    << " ", " ", "A", "P", "I", " ", "U", "R", "L", ":", " " >>

\* line 43: "  Elasticsearch: "
ElasticsearchLabel ==
    << " ", " ", "E", "l", "a", "s", "t", "i", "c", "s", "e", "a", "r", "c", "h", ":", " " >>

\* line 44: "  MLflow: "
MlflowLabel ==
    << " ", " ", "M", "L", "f", "l", "o", "w", ":", " " >>

\* line 45: "  NeMo Gateway: "
NemoLabel ==
    << " ", " ", "N", "e", "M", "o", " ", "G", "a", "t", "e", "w", "a", "y", ":", " " >>

\* the template's fixed suffix ".svc.cluster.local"
ClusterSuffix ==
    << ".", "s", "v", "c", ".", "c", "l", "u", "s", "t", "e", "r", ".", "l", "o", "c", "a",
       "l" >>

\* the template's "://"
SchemeSeparator ==
    << ":", "/", "/" >>

(***************************************************************************)
(* Names                                                                   *)
(***************************************************************************)

\* The keys written by lines 31-38, in the order of the source.
ExportedNames ==
    << "API_BASE_URL", "ELASTICSEARCH_URL", "MONGODB_URL", "REDIS_URL",
       "MLFLOW_TRACKING_URI", "NEMO_BASE_URL", "NIM_BASE_URL", "DATASTORE_BASE_URL" >>

Exported == { ExportedNames[i] : i \in 1..Len(ExportedNames) }

\* The names the module body binds (lines 9-26).
ConstantNames == Exported \cup {"NAMESPACE", "NIM_EXTERNAL_URL"}

\* Environment variables the process may start with: the eight exported
\* names, the name of the constant that is not exported, and a bystander.
EnvNames == Exported \cup {"NIM_EXTERNAL_URL", "PATH"}

\* A value an environment variable holds before the module is imported.
StaleValue == << "s", "t", "a", "l", "e" >>

InitialValues == { StaleValue }

\* The encodings sys.stdout may have; print() encodes its text with it.
Encodings == { "utf-8", "ascii" }

Lower ==
    { "a", "b", "c", "d", "e", "f", "g", "h", "i", "j", "k", "l", "m",
      "n", "o", "p", "q", "r", "s", "t", "u", "v", "w", "x", "y", "z" }

Upper ==
    { "A", "B", "C", "D", "E", "F", "G", "H", "I", "J", "K", "L", "M",
      "N", "O", "P", "Q", "R", "S", "T", "U", "V", "W", "X", "Y", "Z" }

Digits == { "0", "1", "2", "3", "4", "5", "6", "7", "8", "9" }

\* The ASCII characters; "U+2713" is not one of them.
AsciiChars == Lower \cup Upper \cup Digits \cup { " ", "-", ".", ":", "/", "_", "=" }

(***************************************************************************)
(* State                                                                   *)
(***************************************************************************)

VARIABLES
    globals,        \* the module's namespace: name -> str, for the names bound so far
    environ,        \* os.environ: name -> str, for the variables that are set
    stdout,         \* the lines print() has written, oldest first
    encoding,       \* sys.stdout.encoding
    pc,             \* the source line about to be executed; 50 is past the last line
    status,         \* "importing", "imported", or "raised" (an exception propagated)
    returned,       \* invocations of configure_environment() that have returned
    explicit,       \* invocations made by the importer itself after the import
    environAtCall,  \* history: os.environ when the current or last invocation began
    environAfterFirst \* history: os.environ when the first invocation returned

vars ==
    << globals, environ, stdout, encoding, pc, status, returned, explicit,
       environAtCall, environAfterFirst >>

(***************************************************************************)
(* Module body, lines 9-26                                                 *)
(***************************************************************************)

\* dict assignment d[k] = v
Bind(d, k, v) == [ x \in DOMAIN d \cup {k} |-> IF x = k THEN v ELSE d[x] ]

\* The f-strings of lines 12-21, evaluated in the namespace g.
API_BASE_URL(g) == API_BASE_URL_head \o g["NAMESPACE"] \o API_BASE_URL_tail
ELASTICSEARCH_URL(g) == ELASTICSEARCH_URL_head \o g["NAMESPACE"] \o ELASTICSEARCH_URL_tail
MONGODB_URL(g) == MONGODB_URL_head \o g["NAMESPACE"] \o MONGODB_URL_tail
\* Mutant of REDIS_URL: the placeholder {NAMESPACE} left out of the f-string.
REDIS_URL_withoutNamespace(g) == REDIS_URL_head \o REDIS_URL_tail
REDIS_URL(g) == REDIS_URL_head \o g["NAMESPACE"] \o REDIS_URL_tail
MLFLOW_TRACKING_URI(g) == MLFLOW_TRACKING_URI_head \o g["NAMESPACE"] \o MLFLOW_TRACKING_URI_tail
NEMO_BASE_URL(g) == NEMO_BASE_URL_head \o g["NAMESPACE"] \o NEMO_BASE_URL_tail
NIM_BASE_URL(g) == NIM_BASE_URL_head \o g["NAMESPACE"] \o NIM_BASE_URL_tail
DATASTORE_BASE_URL(g) == DATASTORE_BASE_URL_head \o g["NAMESPACE"] \o DATASTORE_BASE_URL_tail

\* The lines of the module body that bind a constant.
AssignmentLines == {9, 12, 13, 14, 15, 16, 19, 20, 21, 24}

\* Mutant of TargetAt: line 21 assigns to API_BASE_URL, the other URL with
\* port 8000, in place of DATASTORE_BASE_URL.
TargetAt_rebinding(l) ==
    CASE l = 9  -> "NAMESPACE"
      [] l = 12 -> "API_BASE_URL"
      [] l = 13 -> "ELASTICSEARCH_URL"
      [] l = 14 -> "MONGODB_URL"
      [] l = 15 -> "REDIS_URL"
      [] l = 16 -> "MLFLOW_TRACKING_URI"
      [] l = 19 -> "NEMO_BASE_URL"
      [] l = 20 -> "NIM_BASE_URL"
      [] l = 21 -> "API_BASE_URL"
      [] l = 24 -> "NIM_EXTERNAL_URL"

\* The name bound by the assignment at line l.
TargetAt(l) ==
    CASE l = 9  -> "NAMESPACE"
      [] l = 12 -> "API_BASE_URL"
      [] l = 13 -> "ELASTICSEARCH_URL"
      [] l = 14 -> "MONGODB_URL"
      [] l = 15 -> "REDIS_URL"
      [] l = 16 -> "MLFLOW_TRACKING_URI"
      [] l = 19 -> "NEMO_BASE_URL"
      [] l = 20 -> "NIM_BASE_URL"
      [] l = 21 -> "DATASTORE_BASE_URL"
      [] l = 24 -> "NIM_EXTERNAL_URL"

\* The value of the right-hand side of line l in the namespace g.
ValueAt(l, g) ==
    CASE l = 9  -> NAMESPACE_literal
      [] l = 12 -> API_BASE_URL(g)
      [] l = 13 -> ELASTICSEARCH_URL(g)
      [] l = 14 -> MONGODB_URL(g)
      [] l = 15 -> REDIS_URL(g)
      [] l = 16 -> MLFLOW_TRACKING_URI(g)
      [] l = 19 -> NEMO_BASE_URL(g)
      [] l = 20 -> NIM_BASE_URL(g)
      [] l = 21 -> DATASTORE_BASE_URL(g)
      [] l = 24 -> NIM_EXTERNAL_URL_literal

\* Mutant of NextLine: the banner of line 40 is printed before the assignment
\* of line 38.
NextLine_bannerFirst(l) ==
    CASE l = 16 -> 19
      [] l = 21 -> 24
      [] l = 24 -> 29
      [] l = 29 -> 49
      [] l = 37 -> 40
      [] l = 40 -> 38
      [] l = 38 -> 41
      [] l = 9  -> 12
      [] OTHER  -> l + 1

\* The statement executed after the one at line l.  46 is the end of the body
\* of configure_environment(), 50 the end of the file.
NextLine(l) ==
    CASE l = 16 -> 19
      [] l = 21 -> 24
      [] l = 24 -> 29
      [] l = 29 -> 49
      [] l = 38 -> 40
      [] l = 9  -> 12
      [] OTHER  -> l + 1

\* Lines 9-26: NAMESPACE = ..., API_BASE_URL = f"...", ..., NIM_EXTERNAL_URL = (...)
AssignConstant ==
    /\ status = "importing"
    /\ pc \in AssignmentLines
    /\ globals' = Bind(globals, TargetAt(pc), ValueAt(pc, globals))
    /\ pc' = NextLine(pc)
    /\ UNCHANGED << environ, stdout, encoding, status, returned, explicit,
                    environAtCall, environAfterFirst >>

\* Line 29: def configure_environment() binds the function; nothing is run.
DefineConfigure ==
    /\ status = "importing"
    /\ pc = 29
    /\ pc' = NextLine(pc)
    /\ UNCHANGED << globals, environ, stdout, encoding, status, returned, explicit,
                    environAtCall, environAfterFirst >>

\* Mutant of CallOnImport: line 49 is missing, the module body ends without
\* calling configure_environment().
CallOnImport_missing ==
    /\ status = "importing"
    /\ pc = 49
    /\ pc' = 50
    /\ status' = "imported"
    /\ UNCHANGED << globals, environ, stdout, encoding, returned, explicit,
                    environAtCall, environAfterFirst >>

\* Line 49: the module-level call configure_environment().
CallOnImport ==
    /\ status = "importing"
    /\ pc = 49
    /\ pc' = 31
    /\ environAtCall' = environ
    /\ UNCHANGED << globals, environ, stdout, encoding, status, returned, explicit,
                    environAfterFirst >>

(***************************************************************************)
(* configure_environment(), lines 29-45                                    *)
(***************************************************************************)

\* os.putenv refuses an empty name and a value with an embedded null byte.
PutenvAccepts(key, value) ==
    /\ key # ""
    /\ \A i \in 1..Len(value) : value[i] # "U+0000"

\* Mutant of EnvironKeyAt: line 37 writes the key "NIM_EXTERNAL_URL".
EnvironKeyAt_external(l) == IF l = 37 THEN "NIM_EXTERNAL_URL" ELSE ExportedNames[l - 30]

\* The key of the os.environ assignment at line l (31-38).
EnvironKeyAt(l) == ExportedNames[l - 30]

\* Mutant of EnvironSourceAt: line 37 reads the global NIM_EXTERNAL_URL.
EnvironSourceAt_external(l) == IF l = 37 THEN "NIM_EXTERNAL_URL" ELSE ExportedNames[l - 30]

\* The global read by the os.environ assignment at line l (31-38).
EnvironSourceAt(l) == ExportedNames[l - 30]

\* Mutant of SetEnviron: os.environ["X"] = os.environ.get("X", "") + X, the
\* value appended to the one already there.
SetEnviron_appending ==
    /\ status # "raised"
    /\ pc \in 31..38
    /\ IF /\ EnvironSourceAt(pc) \in DOMAIN globals
          /\ PutenvAccepts(EnvironKeyAt(pc), globals[EnvironSourceAt(pc)])
       THEN /\ environ' = Bind(environ, EnvironKeyAt(pc),
                               (IF EnvironKeyAt(pc) \in DOMAIN environ
                                THEN environ[EnvironKeyAt(pc)] ELSE << >>)
                               \o globals[EnvironSourceAt(pc)])
            /\ pc' = NextLine(pc)
            /\ UNCHANGED status
       ELSE /\ status' = "raised"
            /\ UNCHANGED << environ, pc >>
    /\ UNCHANGED << globals, stdout, encoding, returned, explicit,
                    environAtCall, environAfterFirst >>

\* Mutant of SetEnviron: os.environ.setdefault("X", X), a value already set
\* is kept.
SetEnviron_setdefault ==
    /\ status # "raised"
    /\ pc \in 31..38
    /\ IF /\ EnvironSourceAt(pc) \in DOMAIN globals
          /\ PutenvAccepts(EnvironKeyAt(pc), globals[EnvironSourceAt(pc)])
       THEN /\ environ' = IF EnvironKeyAt(pc) \in DOMAIN environ
                          THEN environ
                          ELSE Bind(environ, EnvironKeyAt(pc), globals[EnvironSourceAt(pc)])
            /\ pc' = NextLine(pc)
            /\ UNCHANGED status
       ELSE /\ status' = "raised"
            /\ UNCHANGED << environ, pc >>
    /\ UNCHANGED << globals, stdout, encoding, returned, explicit,
                    environAtCall, environAfterFirst >>

\* Lines 31-38: os.environ["X"] = X.  The global is looked up when the line
\* runs; an unbound name or a refused putenv raises.
SetEnviron ==
    /\ status # "raised"
    /\ pc \in 31..38
    /\ IF /\ EnvironSourceAt(pc) \in DOMAIN globals
          /\ PutenvAccepts(EnvironKeyAt(pc), globals[EnvironSourceAt(pc)])
       THEN /\ environ' = Bind(environ, EnvironKeyAt(pc), globals[EnvironSourceAt(pc)])
            /\ pc' = NextLine(pc)
            /\ UNCHANGED status
       ELSE /\ status' = "raised"
            /\ UNCHANGED << environ, pc >>
    /\ UNCHANGED << globals, stdout, encoding, returned, explicit,
                    environAtCall, environAfterFirst >>

\* The text print() is given at line l (40-45), in the namespace g.
PrintedText(l, g) ==
    CASE l = 40 -> Banner
      [] l = 41 -> NamespaceLabel \o g["NAMESPACE"]
      [] l = 42 -> ApiLabel \o g["API_BASE_URL"]
      [] l = 43 -> ElasticsearchLabel \o g["ELASTICSEARCH_URL"]
      [] l = 44 -> MlflowLabel \o g["MLFLOW_TRACKING_URI"]
      [] l = 45 -> NemoLabel \o g["NEMO_BASE_URL"]

\* Whether the codec enc can encode every character of text.
Encodable(text, enc) ==
    \/ enc = "utf-8"
    \/ \A i \in 1..Len(text) : text[i] \in AsciiChars

\* Lines 40-45: print(...) when sys.stdout can encode the text.
PrintLine ==
    /\ status # "raised"
    /\ pc \in 40..45
    /\ Encodable(PrintedText(pc, globals), encoding)
    /\ stdout' = Append(stdout, PrintedText(pc, globals))
    /\ pc' = NextLine(pc)
    /\ UNCHANGED << globals, environ, encoding, status, returned, explicit,
                    environAtCall, environAfterFirst >>

\* Lines 40-45: print(...) raises UnicodeEncodeError when sys.stdout cannot
\* encode the text; nothing of the line is written, and the exception leaves
\* configure_environment() and its caller.
PrintRaises ==
    /\ status # "raised"
    /\ pc \in 40..45
    /\ ~Encodable(PrintedText(pc, globals), encoding)
    /\ status' = "raised"
    /\ UNCHANGED << globals, environ, stdout, encoding, pc, returned, explicit,
                    environAtCall, environAfterFirst >>

\* The end of the body: configure_environment() returns None to its caller.
\* Returning to line 49 ends the module body: the import has completed.
Return ==
    /\ status # "raised"
    /\ pc = 46
    /\ pc' = 50
    /\ status' = "imported"
    /\ returned' = returned + 1
    /\ environAfterFirst' = IF returned = 0 THEN environ ELSE environAfterFirst
    /\ UNCHANGED << globals, environ, stdout, encoding, explicit, environAtCall >>

\* The importer calls config.configure_environment() again.
ExplicitCall ==
    /\ status = "imported"
    /\ pc = 50
    /\ explicit < MaxCalls
    /\ explicit' = explicit + 1
    /\ pc' = 31
    /\ environAtCall' = environ
    /\ UNCHANGED << globals, environ, stdout, encoding, status, returned,
                    environAfterFirst >>

(***************************************************************************)
(* Specification                                                           *)
(***************************************************************************)

\* The process before "import config": nothing bound, nothing printed, any
\* subset of EnvNames set, either encoding.
Init ==
    /\ globals = [ n \in {} |-> << >> ]
    /\ environ \in UNION { [ S -> InitialValues ] : S \in SUBSET EnvNames }
    /\ stdout = << >>
    /\ encoding \in Encodings
    /\ pc = 9
    /\ status = "importing"
    /\ returned = 0
    /\ explicit = 0
    /\ environAtCall = environ
    /\ environAfterFirst = environ

\* The steps of the interpreter: one statement at a time.
Step ==
    \/ AssignConstant
    \/ DefineConfigure
    \/ CallOnImport
    \/ SetEnviron
    \/ PrintLine
    \/ PrintRaises
    \/ Return

Next == Step \/ ExplicitCall

Spec == Init /\ [][Next]_vars

\* The interpreter is one synchronous thread: a statement that can run does.
FairSpec == Spec /\ WF_vars(Step)

(***************************************************************************)
(* The documented URL template                                             *)
(*   <scheme>://<service-host>.<namespace>.svc.cluster.local:<port>[/<path>]*)
(***************************************************************************)

\* The least i with SubSeq(s, i, i + Len(pat) - 1) = pat, or 0.
FirstIndex(s, pat) ==
    LET hits == { i \in 1..(Len(s) - Len(pat) + 1) : SubSeq(s, i, i + Len(pat) - 1) = pat }
    IN  IF hits = {} THEN 0 ELSE CHOOSE i \in hits : \A j \in hits : i <= j

\* url split at the first "://", then at the first "/" after it, then the
\* part between them at its first ":".
ParseURL(url) ==
    LET sep       == FirstIndex(url, SchemeSeparator)
        rest      == IF sep = 0 THEN << >>
                     ELSE SubSeq(url, sep + Len(SchemeSeparator), Len(url))
        slash     == FirstIndex(rest, << "/" >>)
        authority == IF slash = 0 THEN rest ELSE SubSeq(rest, 1, slash - 1)
        colon     == FirstIndex(authority, << ":" >>)
    IN  [ scheme  |-> IF sep = 0 THEN << >> ELSE SubSeq(url, 1, sep - 1),
          host    |-> IF colon = 0 THEN authority ELSE SubSeq(authority, 1, colon - 1),
          hasPort |-> colon # 0,
          port    |-> IF colon = 0 THEN << >>
                      ELSE SubSeq(authority, colon + 1, Len(authority)),
          hasPath |-> slash # 0,
          path    |-> IF slash = 0 THEN << >> ELSE SubSeq(rest, slash + 1, Len(rest)) ]

AllIn(s, chars) == \A i \in 1..Len(s) : s[i] \in chars

\* host is <service-host>.<namespace>.svc.cluster.local with a service host
\* of one label.
HostMatches(host, ns) ==
    LET fixed == << "." >> \o ns \o ClusterSuffix
        n     == Len(host) - Len(fixed)
    IN  /\ n >= 1
        /\ SubSeq(host, n + 1, Len(host)) = fixed
        /\ AllIn(SubSeq(host, 1, n), Lower \cup Digits \cup {"-"})

\* url matches the template for the namespace ns; the path is optional, the
\* port is optional only when portRequired is FALSE.
MatchesTemplate(url, ns, portRequired) ==
    LET u == ParseURL(url)
    IN  /\ Len(u.scheme) >= 1
        /\ AllIn(u.scheme, Lower)
        /\ HostMatches(u.host, ns)
        /\ portRequired => u.hasPort
        /\ u.hasPort => (Len(u.port) >= 1 /\ AllIn(u.port, Digits))
        /\ u.hasPath => Len(u.path) >= 1

(***************************************************************************)
(* Properties                                                              *)
(***************************************************************************)

\* An invocation of configure_environment() has made its eight assignments:
\* it is printing, has raised while printing, or has returned.
Invoked == returned >= 1 \/ pc \in 40..46

\* Every exported variable is set and equals the module constant of its name.
AllPublished ==
    \A k \in Exported :
        /\ k \in DOMAIN environ
        /\ k \in DOMAIN globals
        /\ environ[k] = globals[k]

\* C1: after any invocation of configure_environment(), from any initial
\* environment, each of the eight variables is set and equals the module
\* constant of the same name.
EnvironEqualsConstants == Invoked => AllPublished

\* C1 witness: the first invocation has returned to a process that began with
\* some of the eight variables unset and some holding another value.
EnvironEqualsConstants_witness ==
    /\ returned = 1
    /\ pc = 50
    /\ \E k \in Exported : k \notin DOMAIN environAtCall
    /\ \E k \in Exported : k \in DOMAIN environAtCall /\ environAtCall[k] = StaleValue

\* C2 (as stated): every exported value matches the template with scheme,
\* service host, namespace, suffix, colon and port all present, the path being
\* the only optional part.
ExportedMatchTemplate ==
    Invoked =>
        \A k \in Exported :
            k \in DOMAIN environ =>
                MatchesTemplate(environ[k], NAMESPACE_literal, TRUE)

\* C2 (amended): every exported value matches the template with the port and
\* the path both optional; the port is absent exactly in NEMO_BASE_URL and
\* NIM_BASE_URL.
ExportedMatchTemplatePortOptional ==
    Invoked =>
        \A k \in Exported :
            k \in DOMAIN environ =>
                /\ MatchesTemplate(environ[k], NAMESPACE_literal, FALSE)
                /\ ParseURL(environ[k]).hasPort <=> k \notin {"NEMO_BASE_URL", "NIM_BASE_URL"}

\* C2 witness: all eight values are in the environment, among them one with
\* a path and one without a port.
ExportedMatchTemplate_witness ==
    /\ Invoked
    /\ Exported \subseteq DOMAIN environ
    /\ \E k \in Exported : ParseURL(environ[k]).hasPath
    /\ \E k \in Exported : ~ParseURL(environ[k]).hasPort

\* C3: configure_environment() is idempotent: the whole environment after a
\* second (or later) invocation is the environment after the first.
Idempotent == (returned >= 2 /\ pc = 50) => environ = environAfterFirst

\* C3 witness: a second invocation has returned, the process having begun
\* with some exported variable holding another value.
Idempotent_witness ==
    /\ returned = 2
    /\ pc = 50
    /\ Exported \subseteq DOMAIN environAfterFirst
    /\ "PATH" \in DOMAIN environ

\* C4: the environment is configured on import: when the import has
\* completed an invocation has returned and all eight variables hold their
\* constants, the importer having made no call before that, and whenever the
\* body of configure_environment() runs all ten constants are bound.
ConfiguredOnImport ==
    /\ status = "imported" => (returned >= 1 /\ AllPublished)
    /\ status # "imported" => explicit = 0
    /\ pc \in 31..46 => DOMAIN globals = ConstantNames

\* C4 witness: the import has completed, the importer has called nothing, and
\* the process began with an empty environment.
ConfiguredOnImport_witness ==
    /\ status = "imported"
    /\ explicit = 0
    /\ DOMAIN environAtCall = {}
    /\ Exported \subseteq DOMAIN environ

\* The value line l gives its constant when NAMESPACE is the literal of
\* line 9: a function of the source text alone.
PublishedValue(k) ==
    LET l == CHOOSE m \in AssignmentLines : TargetAt(m) = k
    IN  ValueAt(l, [ n \in {"NAMESPACE"} |-> NAMESPACE_literal ])

\* C5: no runtime input affects the published values: after an invocation
\* each of the eight variables holds a value fixed by the source text, the
\* same from every initial environment and every stdout encoding, and a value
\* it held before is overwritten.
NoRuntimeInput ==
    Invoked =>
        \A k \in Exported :
            /\ k \in DOMAIN environ
            /\ environ[k] = PublishedValue(k)
            /\ environ[k] \notin InitialValues

\* C5 witness: an invocation has returned to a process in which all eight
\* variables were already set to another value.
NoRuntimeInput_witness ==
    /\ returned = 1
    /\ \A k \in Exported : k \in DOMAIN environAtCall /\ environAtCall[k] = StaleValue
    /\ \A k \in Exported : environ[k] # StaleValue

\* C6: configure_environment() writes the eight named variables and no
\* other: every other variable, NIM_EXTERNAL_URL among them, is set or unset
\* and valued as when the invocation began, and after the invocation the
\* variables that are set are those set before and the eight.
WritesOnlyExported ==
    /\ \A k \in (DOMAIN environ \cup DOMAIN environAtCall) \ Exported :
          /\ k \in DOMAIN environ
          /\ k \in DOMAIN environAtCall
          /\ environ[k] = environAtCall[k]
    /\ Invoked => DOMAIN environ = DOMAIN environAtCall \cup Exported

\* C6 witness: an invocation has returned, the constant NIM_EXTERNAL_URL is
\* bound, the variable NIM_EXTERNAL_URL is still unset and PATH still set.
WritesOnlyExported_witness ==
    /\ returned >= 1
    /\ "NIM_EXTERNAL_URL" \in DOMAIN globals
    /\ "NIM_EXTERNAL_URL" \notin DOMAIN environ
    /\ "PATH" \in DOMAIN environ
    /\ Exported \subseteq DOMAIN environ

\* C7: the constants are constructed once and never mutated: no step, of the
\* module body or of any invocation, unbinds or changes a name that is bound.
ConstantsNeverMutated ==
    [][ \A n \in DOMAIN globals : n \in DOMAIN globals' /\ globals'[n] = globals[n] ]_vars

\* C7 witness: a second invocation is about to return with NAMESPACE and the
\* nine URL constants bound.
ConstantsNeverMutated_witness ==
    /\ pc = 46
    /\ explicit = 1
    /\ DOMAIN globals = ConstantNames

\* C8 (as stated): configure_environment() cannot fail: no error state is
\* reachable, and the routine never stops with only some of the eight
\* assignments made.
CannotFail ==
    /\ status # "raised"
    /\ ~(status = "raised" /\ pc \in 32..38)

\* C9 (as stated): module load runs to completion: every execution reaches
\* the state where the invocation made by the import has returned.
LoadCompletes == <>(status = "imported" /\ returned >= 1)

\* The part of a printed line after its label.
ShownValue(line, label) == SubSeq(line, Len(label) + 1, Len(line))

\* The i-th line printed is the j-th line of its invocation's six.
LineOfBlock(i) == ((i - 1) % 6) + 1

\* C10: the confirmation output is truthful: while an invocation is making
\* its assignments it has printed nothing, whenever a line has been printed
\* all eight variables equal their constants, and the URLs shown are the
\* values of API_BASE_URL, ELASTICSEARCH_URL, MLFLOW_TRACKING_URI and
\* NEMO_BASE_URL in the environment.
OutputTruthful ==
    /\ pc \in 31..38 => Len(stdout) = 6 * returned
    /\ stdout # << >> => AllPublished
    /\ \A i \in 1..Len(stdout) :
          /\ LineOfBlock(i) = 3 => ShownValue(stdout[i], ApiLabel) = environ["API_BASE_URL"]
          /\ LineOfBlock(i) = 4 =>
                ShownValue(stdout[i], ElasticsearchLabel) = environ["ELASTICSEARCH_URL"]
          /\ LineOfBlock(i) = 5 =>
                ShownValue(stdout[i], MlflowLabel) = environ["MLFLOW_TRACKING_URI"]
          /\ LineOfBlock(i) = 6 => ShownValue(stdout[i], NemoLabel) = environ["NEMO_BASE_URL"]

\* C10 witness: the six lines of the import's invocation have been printed,
\* the first of them the banner.
OutputTruthful_witness ==
    /\ Len(stdout) = 6
    /\ stdout[1] = Banner
    /\ status = "imported"

=============================================================================
